---- MODULE Spec2Model ----
(***************************************************************************)
(* The natural-language query gateway of the knowledge base:               *)
(* ask_question, POST /ask (src/app/api/routes/ask.py).                    *)
(*                                                                         *)
(* A text is a sequence of characters, each a string.  The string          *)
(* operations the handler applies (strip, startswith, upper, the two       *)
(* fence substitutions and the search of UNSAFE_PATTERN) are operators     *)
(* over such sequences, computed character by character as Python          *)
(* computes them.  Spec follows one invocation at a time: it enters, calls  *)
(* the generation service, validates the text it got and executes it.      *)
(* LoopSpec follows several invocations as tasks of one event loop.        *)
(***************************************************************************)
EXTENDS Integers, Sequences, FiniteSets, TLC

(***************************************************************************)
(* Bounds of the model.                                                    *)
(***************************************************************************)
\* A query body is a concatenation of at most this many fragments.
MaxBodyFrags == 3
\* The engine returns 0..SmallRows rows of any projection, or a number of
\* rows around ROW_CAP up to ROW_CAP + ExtraRows of the widest projection.
SmallRows == 2
ExtraRows == 2
\* An upstream error body has 0..SmallBody characters, or a length around
\* BODY_CUT up to BODY_CUT + ExtraBody.
SmallBody == 1
ExtraBody == 1
\* The size ceilings tried are 1..MaxCeiling characters; the longest answer
\* of the generation service has one character more.
MaxCeiling == 63
\* The number of requests the event loop serves at a time.
NumTasks == 3

(***************************************************************************)
(* Program constants.                                                      *)
(***************************************************************************)
\* ask.py:174-175, if len(rows) > 200: rows = rows[:200]
ROW_CAP == 200
\* ask.py:148, resp.text[:200]
BODY_CUT == 200

(***************************************************************************)
(* Characters and the Python string operations.                            *)
(***************************************************************************)
UpperChars ==
  << "A","B","C","D","E","F","G","H","I","J","K","L","M",
     "N","O","P","Q","R","S","T","U","V","W","X","Y","Z" >>

LowerChars ==
  << "a","b","c","d","e","f","g","h","i","j","k","l","m",
     "n","o","p","q","r","s","t","u","v","w","x","y","z" >>

DigitChars == {"0","1","2","3","4","5","6","7","8","9"}

Range(f) == {f[i] : i \in DOMAIN f}

\* The regular expression class \w (letters, digits, underscore).
WordChars == Range(UpperChars) \cup Range(LowerChars) \cup DigitChars \cup {"_"}

IsWordChar(c) == c \in WordChars

\* The characters str.strip() removes.
IsSpace(c) == c \in {" ", "\n", "\t", "\r"}

\* The upper-case letter of each lower-case letter.
UpperOf == [c \in Range(LowerChars) |-> UpperChars[CHOOSE i \in 1..26 : LowerChars[i] = c]]

\* One character of str.upper().
upper_char(c) == IF c \in DOMAIN UpperOf THEN UpperOf[c] ELSE c

\* str.upper()
upper(s) == [i \in 1..Len(s) |-> upper_char(s[i])]

\* s[a:b] of Python on 1-based inclusive positions; empty when a > b.
Slice(s, a, b) == IF a > b THEN << >> ELSE SubSeq(s, a, b)

\* str.lstrip()
lstrip(s) ==
  LET keep == {i \in 1..Len(s) : ~IsSpace(s[i])}
  IN  IF keep = {} THEN << >>
      ELSE Slice(s, CHOOSE i \in keep : \A j \in keep : i <= j, Len(s))

\* str.rstrip()
rstrip(s) ==
  LET keep == {i \in 1..Len(s) : ~IsSpace(s[i])}
  IN  IF keep = {} THEN << >>
      ELSE Slice(s, 1, CHOOSE i \in keep : \A j \in keep : j <= i)

\* str.strip()
strip(s) == rstrip(lstrip(s))

\* str.startswith(p)
startswith(s, p) == Len(s) >= Len(p) /\ Slice(s, 1, Len(p)) = p

\* The backquote character (a TLA+ string cannot hold it).
BACKQUOTE == "<backquote>"

\* The fence marker: three backquotes.
FENCE == << BACKQUOTE, BACKQUOTE, BACKQUOTE >>

SELECT == << "S","E","L","E","C","T" >>

\* The number of characters of s, from position k on, that are matched by \w*
\* (greedy: the longest run of word characters).
WordRun(s, k) ==
  IF k > Len(s) THEN 0
  ELSE LET stops == {j \in k..(Len(s) + 1) : j = Len(s) + 1 \/ ~IsWordChar(s[j])}
       IN  (CHOOSE j \in stops : \A i \in stops : j <= i) - k

\* An opening-fence substitution without \w*: the language tag stays.
sub_open_fence_keeps_tag(s) ==
  IF ~startswith(s, FENCE) THEN s
  ELSE LET e == IF 4 <= Len(s) /\ s[4] = "\n" THEN 4 ELSE 3
       IN  Slice(s, e + 1, Len(s))

\* ask.py:156  re.sub(r'^```\w*\n?', '', sql): the opening fence, the longest
\* run of word characters after it and one newline if it follows are removed.
sub_open_fence(s) ==
  IF ~startswith(s, FENCE) THEN s
  ELSE LET w == 3 + WordRun(s, 4)
           e == IF w + 1 <= Len(s) /\ s[w + 1] = "\n" THEN w + 1 ELSE w
       IN  Slice(s, e + 1, Len(s))

\* ask.py:157  re.sub(r'\n?```$', '', sql): $ matches at the end of the text and
\* before a newline that ends it; the leftmost match takes the newline before
\* the fence when there is one.
sub_close_fence(s) ==
  LET n == Len(s)
      \* the position after which $ matches, with the fence ending there
      e == IF n >= 3 /\ Slice(s, n - 2, n) = FENCE THEN n
           ELSE IF n >= 4 /\ s[n] = "\n" /\ Slice(s, n - 3, n - 1) = FENCE THEN n - 1
           ELSE 0
  IN  IF e = 0 THEN s
      ELSE LET b == IF e - 3 >= 1 /\ s[e - 3] = "\n" THEN e - 3 ELSE e - 2
           IN  Slice(s, 1, b - 1) \o Slice(s, e + 1, n)

\* ask.py:155-158  Strip markdown code fences if present.
strip_fences(s) ==
  IF startswith(s, FENCE)
    THEN strip(sub_close_fence(sub_open_fence(s)))
    ELSE s

\* ask.py:105-108  the alternatives of UNSAFE_PATTERN.
UNSAFE_WORDS ==
  { << "I","N","S","E","R","T" >>,
    << "U","P","D","A","T","E" >>,
    << "D","E","L","E","T","E" >>,
    << "D","R","O","P" >>,
    << "A","L","T","E","R" >>,
    << "C","R","E","A","T","E" >>,
    << "R","E","P","L","A","C","E" >>,
    << "T","R","U","N","C","A","T","E" >>,
    << "G","R","A","N","T" >>,
    << "R","E","V","O","K","E" >>}

\* A pattern without \b: every gap counts as a boundary.
WordBoundary_everywhere(s, k) == TRUE

\* \b at the gap after position k of s (k = 0: before the first character).
WordBoundary(s, k) ==
  LET before == k >= 1 /\ IsWordChar(s[k])
      after  == k + 1 <= Len(s) /\ IsWordChar(s[k + 1])
  IN  before # after

\* A comparison that forgets re.IGNORECASE.
MatchesIgnoreCase_case_sensitive(t, w) == t = w

\* re.IGNORECASE comparison of a slice with an alternative of the pattern.
MatchesIgnoreCase(t, w) == upper(t) = w

\* ask.py:161  UNSAFE_PATTERN.search(sql): some slice of the text between two
\* word boundaries is one of the alternatives, in any letter case.
UNSAFE_PATTERN_search(s) ==
  \E w \in UNSAFE_WORDS :
    \E i \in 1..(Len(s) - Len(w) + 1) :
      /\ WordBoundary(s, i - 1)
      /\ MatchesIgnoreCase(Slice(s, i, i + Len(w) - 1), w)
      /\ WordBoundary(s, i + Len(w) - 1)

\* A prefix test written the other way round, "SELECT".startswith(text):
\* the empty text passes it.
is_select_reversed(s) == startswith(SELECT, lstrip(upper(s)))

\* ask.py:164  sql.upper().lstrip().startswith("SELECT")
is_select(s) == startswith(lstrip(upper(s)), SELECT)

(***************************************************************************)
(* The answers of the generation service the handler is run against.      *)
(***************************************************************************)
Select_mixed == << "S","e","l","e","c","t" >>

drop_lower == << "d","r","o","p" >>

\* The pieces a query body is made of: the read keyword in two letter cases,
\* a denylisted verb in lower case, a blank, a digit, an underscore and the
\* punctuation that separates statements and quotes literals.
BodyFragments ==
  { SELECT, Select_mixed, drop_lower,
    << " " >>, << "1" >>, << "_" >>, << ";" >>, << "'" >> }

RECURSIVE BodiesUpTo(_)
BodiesUpTo(n) ==
  IF n = 0 THEN { << >> }
  ELSE LET shorter == BodiesUpTo(n - 1)
       IN  shorter \cup {b \o f : b \in shorter, f \in BodyFragments}

Bodies == BodiesUpTo(MaxBodyFrags)

\* Read queries that name identifiers with a denylisted verb inside them:
\* the schema column created_at, and updated, drop_count.
IdentifierBodies ==
  { SELECT \o << " ","c","r","e","a","t","e","d","_","a","t" >>,
    SELECT \o << " ","u","p","d","a","t","e","d" >>,
    SELECT \o << " ","d","r","o","p","_","c","o","u","n","t" >> }

\* A read query of n characters: SELECT, a blank and a number.
LongQuery(n) == [i \in 1..n |-> IF i <= 6 THEN SELECT[i] ELSE IF i = 7 THEN " " ELSE "1"]

\* What the generation service puts around the body: <<before, after>>.
Wrap_none == << << >>, << >> >>

Wrap_blank == << << " ", "\n" >>, << " " >> >>

Wrap_fence_tag == << FENCE \o << "s","q","l","\n" >>, << "\n" >> \o FENCE >>

Wrap_fence_newline == << FENCE \o << "\n" >>, << "\n" >> \o FENCE >>

Wrap_fence_padded ==
  << << " " >> \o FENCE \o << "s","q","l","\n"," " >>, << " " >> \o FENCE \o << "\n" >> >>

Wrap_fence_bare == << FENCE, FENCE >>

Wrap_fence_unclosed == << FENCE \o << "s","q","l","\n" >>, << >> >>

Wrappers ==
  { Wrap_none, Wrap_blank, Wrap_fence_tag, Wrap_fence_newline, Wrap_fence_padded,
    Wrap_fence_bare, Wrap_fence_unclosed }

Wrapped(w, b) == w[1] \o b \o w[2]

\* The upstream statuses tried: success, another 2xx, a client and a server error.
UpstreamStatuses == {200, 201, 403, 500}

BodyLengths == (0..SmallBody) \cup ((BODY_CUT - 1)..(BODY_CUT + ExtraBody))

\* An upstream body of n characters (the n-th character names its place).
BodyOfLength(n) == [i \in 1..n |-> IF i = n THEN "$" ELSE "e"]

\* An answer of the generation service, as _httpx.post and resp.json() see it:
\*   raised      the exception _httpx.post raised, "" when it returned
\*   status_code resp.status_code
\*   text        resp.text
\*   doc         the shape of the JSON document of a 200 answer
\*   wrap, body  the text at message["content"][0]["text"] is Wrapped(wrap, body)
Answer(raised, status, text, doc, wrap, body) ==
  [raised |-> raised, status_code |-> status, text |-> text, doc |-> doc,
   wrap |-> wrap, body |-> body]

DocFaults ==
  {"invalid_json", "not_an_object", "no_content", "empty_content", "no_text", "text_null"}

Answers ==
  {Answer(e, 0, << >>, "none", Wrap_none, << >>) : e \in {"ConnectError", "ReadTimeout"}}
  \cup {Answer("", st, BodyOfLength(n), "none", Wrap_none, << >>) :
          st \in UpstreamStatuses \ {200}, n \in BodyLengths}
  \cup {Answer("", 200, << >>, d, Wrap_none, << >>) : d \in DocFaults}
  \cup {Answer("", 200, << >>, "text", w, b) : w \in Wrappers, b \in Bodies}
  \cup {Answer("", 200, << >>, "text", Wrap_none, LongQuery(MaxCeiling + 1))}
  \cup {Answer("", 200, << >>, "text", Wrap_none, b) : b \in IdentifierBodies}

\* req.question: AskRequest takes any string, the empty one included.
Questions == {"", "q1"}

\* os.environ: the variable AWS_BEARER_TOKEN_BEDROCK is unset, empty or set.
EnvValues == {"<unset>", "", "token"}

(***************************************************************************)
(* The data store behind the session: a SQLite engine reached through      *)
(* db.execute.  Its contents are a version number that every write bumps.  *)
(***************************************************************************)
\* The statements of a text: it is cut at every semicolon outside a quoted
\* literal, and a position is inside a literal when the number of quote
\* characters before it is odd.
Statements(s) ==
  LET quotes == {i \in 1..Len(s) : s[i] = "'"}
      quoted(k) == Cardinality({i \in quotes : i < k}) % 2 = 1
      cuts == {0, Len(s) + 1} \cup {k \in 1..Len(s) : s[k] = ";" /\ ~quoted(k)}
      cut(n) == CHOOSE c \in cuts : Cardinality({d \in cuts : d < c}) = n
  IN  [n \in 1..(Cardinality(cuts) - 1) |-> Slice(s, cut(n - 1) + 1, cut(n) - 1)]

\* The number of statements of a text that are not blank.
StatementCount(s) ==
  LET parts == Statements(s)
  IN  Cardinality({i \in DOMAIN parts : strip(parts[i]) # << >>})

\* The first word of a text, in upper case.
FirstToken(s) ==
  LET t == lstrip(s)
  IN  upper(Slice(t, 1, WordRun(t, 1)))

\* The projections a result set may have (the last repeats a column name).
ColumnLists ==
  { << "id" >>, << "character", "pinyin" >>, << "id", "id" >> }

\* The result sets tried: <<columns, number of rows>>.
ResultShapes ==
  {<< c, n >> : c \in ColumnLists, n \in 0..SmallRows}
  \cup {<< << "character", "pinyin" >>, n >> : n \in (ROW_CAP - 1)..(ROW_CAP + ExtraRows)}

\* The value of column k of row i of a result set.
Cell(i, k) == 10 * i + k

\* result.fetchall(): n rows, each a tuple with one value per column.
fetchall(columns, n) == [i \in 1..n |-> [k \in 1..Len(columns) |-> Cell(i, k)]]

EngineResult(kind, error, columns, n) ==
  [kind |-> kind, error |-> error, columns |-> columns, nrows |-> n]

\* What executing a text may do: a text of several statements is refused by
\* the driver; a SELECT statement fails, returns rows or (a query that does
\* not end, such as a recursive one) never answers; a statement that starts
\* with a writing verb changes the contents and returns no rows; anything
\* else is a syntax error.
EngineOutcomes(s) ==
  IF StatementCount(s) > 1
    THEN {EngineResult("error", "ProgrammingError", << >>, 0)}
  ELSE IF FirstToken(s) = SELECT
    THEN {EngineResult("error", "OperationalError", << >>, 0),
          EngineResult("never", "", << >>, 0)}
         \cup {EngineResult("rows", "", r[1], r[2]) : r \in ResultShapes}
  ELSE IF FirstToken(s) \in UNSAFE_WORDS
    THEN {EngineResult("write", "ResourceClosedError", << >>, 0)}
  ELSE {EngineResult("error", "OperationalError", << >>, 0)}

(***************************************************************************)
(* The handler ask_question.                                               *)
(***************************************************************************)
VARIABLES
  environ,         \* os.environ["AWS_BEARER_TOKEN_BEDROCK"] when the module was loaded
  store,           \* the contents of the data store
  pc,              \* where the invocation is
  question,        \* req.question
  answer,          \* the answer the generation service gave this invocation
  sql,             \* the local variable sql
  validated,       \* the texts the safety check was applied to, in order
  executed,        \* the calls of db.execute of this invocation, in order
  llm_calls,       \* the number of calls of _httpx.post of this invocation
  engine_outcome,  \* what the engine did with the last text executed
  response,        \* the response of this invocation
  store_at_entry,  \* the contents of the data store when the invocation began
  loop             \* the event loop: the task that holds its thread, where each task is

\* The state of one invocation, seen from inside the handler.
handler_vars ==
  << environ, store, pc, question, answer, sql, validated, executed, llm_calls,
     engine_outcome, response, store_at_entry >>

vars == << handler_vars, loop >>

\* The requests in flight on the event loop.
Tasks == 1..NumTasks

\* No request has arrived and the thread of the loop is free (running = 0).
LoopIdle == [running |-> 0, at |-> [t \in Tasks |-> "none"]]

\* config.py:8  os.environ.get("AWS_BEARER_TOKEN_BEDROCK", "")
BEDROCK_BEARER_TOKEN == IF environ = "<unset>" THEN "" ELSE environ

\* An exception: its class, the pieces of its message.
Error(exc, what, status, body) ==
  [exc |-> exc, what |-> what, status |-> status, body |-> body]

NoError == Error("", "", 0, << >>)

NoBody == [question |-> "", sql |-> << >>, results |-> << >>, row_count |-> 0]

\* A response: the status; for an HTTPException the detail, made of a label,
\* str(e) of the exception it reports and the query text it quotes (none, or
\* one); for AskResponse the body.
Response(status, label, error, quoted, body) ==
  [status |-> status, label |-> label, error |-> error, quoted |-> quoted, body |-> body]

NoResponse == Response(0, "", NoError, << >>, NoBody)

NoAnswer == Answer("", 0, << >>, "none", Wrap_none, << >>)

NoOutcome == EngineResult("none", "", << >>, 0)

\* The classes of the exceptions that may be raised, all subclasses of Exception.
ExceptionClasses ==
  { "ConnectError", "ReadTimeout", "Exception", "JSONDecodeError", "TypeError",
    "KeyError", "IndexError", "AttributeError", "OperationalError",
    "ProgrammingError", "ResourceClosedError" }

\* A handler that catches the transport errors only.
except_transport_errors_only(e) == e.exc \in {"ConnectError", "ReadTimeout"}

\* ask.py:151 and ask.py:183  except Exception as e
except_Exception(e) == e.exc \in ExceptionClasses

\* A check for None: the default "" of the configuration is never None.
not_configured_is_None(token) == token = "<unset>"

\* ask.py:125  if not BEDROCK_BEARER_TOKEN
not_configured(token) == token = ""

\* ask.py:148  resp.text[:200]
text_head(t) == Slice(t, 1, IF Len(t) < BODY_CUT THEN Len(t) ELSE BODY_CUT)

\* An unwrapping that reads the text with a default, message.get-style: a
\* missing field gives the empty text.
bedrock_try_with_default(a) ==
  IF a.raised # ""
    THEN [error |-> Error(a.raised, "request failed", 0, << >>), sql |-> << >>]
  ELSE IF a.status_code # 200
    THEN [error |-> Error("Exception", "Bedrock returned", a.status_code, text_head(a.text)),
          sql |-> << >>]
  ELSE IF a.doc = "text" THEN [error |-> NoError, sql |-> strip(Wrapped(a.wrap, a.body))]
  ELSE [error |-> NoError, sql |-> << >>]

\* ask.py:130-150  the body of the first try: the exception it raises, or the
\* stripped text of the first content block.
bedrock_try(a) ==
  IF a.raised # ""
    THEN [error |-> Error(a.raised, "request failed", 0, << >>), sql |-> << >>]
  ELSE IF a.status_code # 200
    THEN [error |-> Error("Exception", "Bedrock returned", a.status_code, text_head(a.text)),
          sql |-> << >>]
  ELSE IF a.doc = "invalid_json"
    THEN [error |-> Error("JSONDecodeError", "Expecting value", 0, << >>), sql |-> << >>]
  ELSE IF a.doc = "not_an_object"
    THEN [error |-> Error("TypeError", "indices must be integers", 0, << >>), sql |-> << >>]
  ELSE IF a.doc = "no_content"
    THEN [error |-> Error("KeyError", "'content'", 0, << >>), sql |-> << >>]
  ELSE IF a.doc = "empty_content"
    THEN [error |-> Error("IndexError", "list index out of range", 0, << >>), sql |-> << >>]
  ELSE IF a.doc = "no_text"
    THEN [error |-> Error("KeyError", "'text'", 0, << >>), sql |-> << >>]
  ELSE IF a.doc = "text_null"
    THEN [error |-> Error("AttributeError", "no attribute 'strip'", 0, << >>), sql |-> << >>]
  ELSE [error |-> NoError, sql |-> strip(Wrapped(a.wrap, a.body))]

\* A safety check without the read-keyword rule.
validate_denylist_only(s) ==
  IF UNSAFE_PATTERN_search(s) THEN "Unsafe query rejected: " ELSE "ok"

\* A safety check that applies the read-keyword rule first.
validate_shape_first(s) ==
  IF ~is_select(s) THEN "Only SELECT queries allowed. Got: "
  ELSE IF UNSAFE_PATTERN_search(s) THEN "Unsafe query rejected: "
  ELSE "ok"

\* A safety check whose verdict depends on more than the text: it lets the
\* text of a request without a question pass.
validate_unless_no_question(s) ==
  IF question = "" THEN "ok"
  ELSE IF UNSAFE_PATTERN_search(s) THEN "Unsafe query rejected: "
  ELSE IF ~is_select(s) THEN "Only SELECT queries allowed. Got: "
  ELSE "ok"

\* ask.py:160-165  the safety check: the denylist first, then the read keyword.
validate(s) ==
  IF UNSAFE_PATTERN_search(s) THEN "Unsafe query rejected: "
  ELSE IF ~is_select(s) THEN "Only SELECT queries allowed. Got: "
  ELSE "ok"

\* ask.py:171  dict(zip(columns, row)): one entry per column name, the last
\* value of a repeated name.
dict_zip(columns, row) ==
  [c \in Range(columns) |->
     row[CHOOSE k \in 1..Len(columns) :
           columns[k] = c /\ \A j \in 1..Len(columns) : columns[j] = c => j <= k]]

\* A limit that is never applied.
enforce_limit_missing(rows) == rows

\* A limit that keeps the last rows, rows[-200:].
enforce_limit_keeps_last(rows) ==
  IF Len(rows) > ROW_CAP THEN SubSeq(rows, Len(rows) - ROW_CAP + 1, Len(rows)) ELSE rows

\* ask.py:174-175  Enforce limit.
enforce_limit(rows) == IF Len(rows) > ROW_CAP THEN SubSeq(rows, 1, ROW_CAP) ELSE rows

\* A rejection whose detail quotes the form the read-keyword rule tested.
rejection_detail_normalised(v, s) == Response(400, v, NoError, << lstrip(upper(s)) >>, NoBody)

\* ask.py:162 and ask.py:165  the detail of a rejection: the reason, then sql.
rejection_detail(v, s) == Response(400, v, NoError, << s >>, NoBody)

\* A response that reports the text of the answer, not the text executed.
AskResponse_reports_answer(q, s, rows) ==
  [question |-> q, sql |-> Wrapped(answer.wrap, answer.body), results |-> rows,
   row_count |-> Len(rows)]

\* ask.py:177-182  AskResponse(question=req.question, sql=sql, results=rows,
\* row_count=len(rows))
AskResponse(q, s, rows) ==
  [question |-> q, sql |-> s, results |-> rows, row_count |-> Len(rows)]

\* A detail of an execution failure that gives the message alone.
execution_error_detail_message_only(e, s) ==
  Response(400, "Query execution error: ", Error(e, "engine message", 0, << >>), << >>, NoBody)

\* ask.py:183-184  the detail of an execution failure: str(e), then the
\* query text.
execution_error_detail(e, s) ==
  Response(400, "Query execution error: ", Error(e, "engine message", 0, << >>), << s >>, NoBody)

\* ask.py:169  db.execute(text(sql)) passes no execution option and opens no
\* read-only transaction: the call runs on the session as get_session gave
\* it, the read-write session the importing routes commit on.
execute_read_only == FALSE

Init ==
  /\ environ \in EnvValues
  /\ store = 0
  /\ pc = "idle"
  /\ question = ""
  /\ answer = NoAnswer
  /\ sql = << >>
  /\ validated = << >>
  /\ executed = << >>
  /\ llm_calls = 0
  /\ engine_outcome = NoOutcome
  /\ response = NoResponse
  /\ store_at_entry = 0
  /\ loop = LoopIdle

\* ask.py:122-126  the request arrives; 503 when generation is not configured.
ask_question_enter(q) ==
  /\ pc \in {"idle", "done"}
  /\ question' = q
  /\ answer' = NoAnswer
  /\ sql' = << >>
  /\ validated' = << >>
  /\ executed' = << >>
  /\ llm_calls' = 0
  /\ engine_outcome' = NoOutcome
  /\ store_at_entry' = store
  /\ IF not_configured(BEDROCK_BEARER_TOKEN)
       THEN /\ response' = Response(503, "Bedrock API not configured", NoError, << >>, NoBody)
            /\ pc' = "done"
       ELSE /\ response' = NoResponse
            /\ pc' = "generate"
  /\ UNCHANGED << environ, store, loop >>

\* A handler that writes module-level state: after a failed generation call
\* it clears the token the module holds, for every later invocation.
ask_question_generate_clears_token(a) ==
  /\ pc = "generate"
  /\ llm_calls' = llm_calls + 1
  /\ answer' = a
  /\ LET r == bedrock_try(a)
     IN  IF r.error = NoError
           THEN /\ sql' = r.sql
                /\ pc' = "validate"
                /\ UNCHANGED << response, environ >>
         ELSE /\ response' = Response(502, "LLM error: ", r.error, << >>, NoBody)
              /\ pc' = "done"
              /\ environ' = ""
              /\ UNCHANGED sql
  /\ UNCHANGED << store, question, validated, executed, engine_outcome, store_at_entry,
                  loop >>

\* ask.py:128-152  the call of the generation service and the unwrapping of
\* its answer; 502 on any exception.
ask_question_generate(a) ==
  /\ pc = "generate"
  /\ llm_calls' = llm_calls + 1
  /\ answer' = a
  /\ LET r == bedrock_try(a)
     IN  IF r.error = NoError
           THEN /\ sql' = r.sql
                /\ pc' = "validate"
                /\ UNCHANGED response
         ELSE IF except_Exception(r.error)
           THEN /\ response' = Response(502, "LLM error: ", r.error, << >>, NoBody)
                /\ pc' = "done"
                /\ UNCHANGED sql
         ELSE /\ response' = Response(500, "unhandled", r.error, << >>, NoBody)
              /\ pc' = "done"
              /\ UNCHANGED sql
  /\ UNCHANGED << environ, store, question, validated, executed, engine_outcome,
                  store_at_entry, loop >>

\* ask.py:154-165  the fences are stripped and the safety check applied.
ask_question_validate ==
  /\ pc = "validate"
  /\ LET s == strip_fences(sql)
         v == validate(s)
     IN  /\ sql' = s
         /\ validated' = Append(validated, s)
         /\ IF v = "ok"
              THEN pc' = "execute" /\ UNCHANGED response
              ELSE /\ response' = rejection_detail(v, s)
                   /\ pc' = "done"
  /\ UNCHANGED << environ, store, question, answer, executed, llm_calls, engine_outcome,
                  store_at_entry, loop >>

\* ask.py:167-184  the query is executed and the response built; 400 on any
\* exception.  The await of db.execute has no timeout: when the engine never
\* answers, the invocation stays suspended there.
ask_question_execute(o) ==
  /\ pc = "execute"
  /\ executed' = Append(executed, [text |-> sql, read_only |-> execute_read_only])
  /\ engine_outcome' = o
  /\ store' = IF o.kind = "write" /\ ~execute_read_only THEN store + 1 ELSE store
  /\ IF o.kind = "never"
       THEN /\ pc' = "awaiting"
            /\ UNCHANGED response
     ELSE IF o.kind = "rows"
       THEN LET columns == o.columns
                fetched == fetchall(columns, o.nrows)
                rows == enforce_limit([i \in 1..Len(fetched) |-> dict_zip(columns, fetched[i])])
            IN  /\ response' = Response(200, "", NoError, << >>, AskResponse(question, sql, rows))
                /\ pc' = "done"
     ELSE IF except_Exception(Error(o.error, "", 0, << >>))
       THEN /\ response' = execution_error_detail(o.error, sql)
            /\ pc' = "done"
     ELSE /\ response' = Response(500, "unhandled", Error(o.error, "engine message", 0, << >>),
                                  << >>, NoBody)
          /\ pc' = "done"
  /\ UNCHANGED << environ, question, answer, sql, validated, llm_calls, store_at_entry,
                  loop >>

\* A handler that calls the generation service once more after a failed call.
Next_with_retry ==
  \/ \E q \in Questions : ask_question_enter(q)
  \/ pc = "generate" /\ \E a \in Answers : ask_question_generate(a)
  \/ ask_question_validate
  \/ pc = "execute" /\ \E o \in EngineOutcomes(sql) : ask_question_execute(o)
  \/ /\ pc = "done"
     /\ response.status = 502
     /\ llm_calls < 2
     /\ pc' = "generate"
     /\ response' = NoResponse
     /\ UNCHANGED << environ, store, question, answer, sql, validated, executed, llm_calls,
                     engine_outcome, store_at_entry, loop >>

\* One step of an invocation; the answer of the generation service and the
\* outcome of the engine are drawn only where the handler waits for them.
Next ==
  \/ \E q \in Questions : ask_question_enter(q)
  \/ pc = "generate" /\ \E a \in Answers : ask_question_generate(a)
  \/ ask_question_validate
  \/ pc = "execute" /\ \E o \in EngineOutcomes(sql) : ask_question_execute(o)

Spec == Init /\ [][Next]_vars

(***************************************************************************)
(* Several invocations on one event loop.  ask_question is a coroutine     *)
(* (async def): the loop runs one task at a time, from where the task      *)
(* stands to its next await.  The handler has one await, that of           *)
(* db.execute; _httpx.post is an ordinary call that returns when the       *)
(* generation service has answered or the timeout has passed.  A task is   *)
(* at "none" (no request), "ready" (the request has arrived), "post"       *)
(* (inside _httpx.post), "await_execute" (suspended on db.execute),        *)
(* "resumable" (the engine has answered) or "responded".                   *)
(***************************************************************************)
\* How the call of the generation service ends for the task: with a raise
\* (502, or a rejection of the text), or with a text that is executed.
PostResults == {"raise", "await"}

\* A client sends a request.
request_arrives(t) ==
  /\ loop.at[t] \in {"none", "responded"}
  /\ loop' = [loop EXCEPT !.at[t] = "ready"]
  /\ UNCHANGED handler_vars

\* ask.py:122-133  the loop starts the task: it answers 503 at once, or
\* enters _httpx.post on the thread of the loop.
task_starts(t) ==
  /\ loop.running = 0
  /\ loop.at[t] = "ready"
  /\ loop' = IF not_configured(BEDROCK_BEARER_TOKEN)
               THEN [loop EXCEPT !.at[t] = "responded"]
               ELSE [loop EXCEPT !.running = t, !.at[t] = "post"]
  /\ UNCHANGED handler_vars

\* ask.py:133-169  _httpx.post returns or raises; the task runs on to a raise
\* of HTTPException or to the await of db.execute, where it leaves the thread.
post_returns(t, r) ==
  /\ loop.running = t
  /\ loop.at[t] = "post"
  /\ loop' = [running |-> 0,
              at |-> [loop.at EXCEPT ![t] = IF r = "raise" THEN "responded"
                                            ELSE "await_execute"]]
  /\ UNCHANGED handler_vars

\* ask.py:169  the engine, at work off the thread of the loop, answers.
engine_answers(t) ==
  /\ loop.at[t] = "await_execute"
  /\ loop' = [loop EXCEPT !.at[t] = "resumable"]
  /\ UNCHANGED handler_vars

\* ask.py:169-184  the loop resumes the task after the await; it responds.
task_resumes(t) ==
  /\ loop.running = 0
  /\ loop.at[t] = "resumable"
  /\ loop' = [loop EXCEPT !.at[t] = "responded"]
  /\ UNCHANGED handler_vars

LoopNext ==
  \/ \E t \in Tasks : request_arrives(t)
  \/ \E t \in Tasks : task_starts(t)
  \/ \E t \in Tasks : \E r \in PostResults : post_returns(t, r)
  \/ \E t \in Tasks : engine_answers(t)
  \/ \E t \in Tasks : task_resumes(t)

LoopSpec == Init /\ [][LoopNext]_vars

(***************************************************************************)
(* What the claims speak of, stated apart from the handler's own checks.   *)
(***************************************************************************)
\* The verbs the denylist is said to hold.
DenylistedVerbs ==
  { << "I","N","S","E","R","T" >>, << "U","P","D","A","T","E" >>,
    << "D","E","L","E","T","E" >>, << "D","R","O","P" >>, << "A","L","T","E","R" >>,
    << "C","R","E","A","T","E" >>, << "R","E","P","L","A","C","E" >>,
    << "T","R","U","N","C","A","T","E" >>, << "G","R","A","N","T" >>,
    << "R","E","V","O","K","E" >> }

\* The words of a text, in upper case: its longest runs of letters, digits
\* and underscores, each read from the position where it starts.
WordsOf(s) ==
  LET starts == {a \in 1..Len(s) :
                   IsWordChar(s[a]) /\ (a = 1 \/ ~IsWordChar(s[a - 1]))}
  IN  {upper(Slice(s, a, a + WordRun(s, a) - 1)) : a \in starts}

\* The text holds a denylisted verb as a whole word, in any letter case.
HasDenylistedWord(s) == WordsOf(s) \cap DenylistedVerbs # {}

\* The text begins with SELECT, in any letter case, after leading blanks.
BeginsWithSelect(s) ==
  LET t == lstrip(s)
  IN  /\ Len(t) >= 6
      /\ \A i \in 1..6 : upper_char(t[i]) = SELECT[i]

UnsafeRejected == response.status = 400 /\ response.label = "Unsafe query rejected: "

NotAReadQueryRejected ==
  response.status = 400 /\ response.label = "Only SELECT queries allowed. Got: "

ExecutionFailed == response.status = 400 /\ response.label = "Query execution error: "

\* The answer of the generation service is a failure of the generation step.
GenerationFailed(a) == a.raised # "" \/ a.status_code # 200 \/ a.doc \in DocFaults

(***************************************************************************)
(* The claims.                                                             *)
(***************************************************************************)
\* C1: a text is passed to db.execute only after it has passed both checks of
\* the safety check (no denylisted verb as a whole word, SELECT first after
\* trimming); the text executed is the text the check was applied to; and an
\* invocation that ends in a validation rejection has executed nothing.
C1_ExecutedOnlyAfterValidation ==
  /\ \A i \in DOMAIN executed :
       LET t == executed[i].text
       IN  /\ ~HasDenylistedWord(t)
           /\ BeginsWithSelect(t)
           /\ validated # << >>
           /\ validated[Len(validated)] = t
  /\ (UnsafeRejected \/ NotAReadQueryRejected) => executed = << >>

\* C1 witness: a fenced answer was unwrapped, validated and executed.
C1_Witness ==
  /\ answer.wrap = Wrap_fence_tag
  /\ executed # << >>
  /\ validated = << executed[1].text >>
  /\ response.status = 200

\* C2: a candidate that holds a denylisted verb as a whole word, in any letter
\* case and anywhere in the text, is rejected with 400 "Unsafe query
\* rejected" and nothing is executed.
C2_DenylistedWordRejected ==
  \A i \in DOMAIN validated :
    HasDenylistedWord(validated[i]) => pc = "done" /\ UnsafeRejected /\ executed = << >>

\* C2 witness: a candidate that begins with SELECT and holds the verb, in
\* lower case, after a quote was rejected as unsafe.
C2_Witness ==
  /\ validated = << SELECT \o << "'" >> \o drop_lower >>
  /\ UnsafeRejected
  /\ executed = << >>

\* C3 as claimed: a candidate that does not begin with SELECT is rejected as
\* not a read query, also when it holds a denylisted verb.
C3_Claimed_ShapeRuleFirst ==
  \A i \in DOMAIN validated :
    ~BeginsWithSelect(validated[i]) => NotAReadQueryRejected

\* C3 as amended: the denylist is applied first. A candidate that does not
\* begin with SELECT is rejected with 400; the reason is the unsafe operation
\* when it holds a denylisted verb as a whole word, and not a read query
\* otherwise.
C3_DenylistRuleFirst ==
  \A i \in DOMAIN validated :
    ~BeginsWithSelect(validated[i]) =>
      /\ pc = "done"
      /\ executed = << >>
      /\ IF HasDenylistedWord(validated[i]) THEN UnsafeRejected ELSE NotAReadQueryRejected

\* C3 witness: a candidate that is not a read query and holds a denylisted
\* verb was rejected as unsafe.
C3_Witness ==
  /\ validated = << drop_lower \o << " ", "1" >> >>
  /\ UnsafeRejected

\* C4: in a successful response row_count is the number of results and is at
\* most 200, however many rows the engine returned.
C4_RowCountCapped ==
  response.status = 200 =>
    /\ response.body.row_count = Len(response.body.results)
    /\ response.body.row_count <= 200

\* C4 witness: the engine returned more than 200 rows and 200 were reported.
C4_Witness ==
  /\ response.status = 200
  /\ engine_outcome.nrows > 200
  /\ response.body.row_count = 200

\* C5 as claimed: every query is run read-only, and when the invocation ends
\* the contents of the data store are those it began with.
C5_Claimed_ReadOnly ==
  /\ \A i \in DOMAIN executed : executed[i].read_only
  /\ pc = "done" => store = store_at_entry

\* C6 as claimed: a text of more than one statement is never passed to
\* db.execute.
C6_Claimed_SingleStatement ==
  \A i \in DOMAIN executed : StatementCount(executed[i].text) <= 1

\* C7: when the credential is unset or empty the invocation ends at once with
\* 503: no generation call, no validation, no execution, no other outcome.
C7_NotConfigured503 ==
  environ \in {"<unset>", ""} =>
    /\ pc \in {"idle", "done"}
    /\ llm_calls = 0
    /\ validated = << >>
    /\ executed = << >>
    /\ pc = "done" => response.status = 503

\* C7 witness: an invocation with an empty credential ended with 503.
C7_Witness ==
  /\ environ = ""
  /\ pc = "done"
  /\ response.status = 503
  /\ response.label = "Bedrock API not configured"

\* C8: every failure of the generation step (the call raises, the status is
\* not 200, the body is not JSON or lacks the content or text field) ends the
\* invocation with 502, the detail carries the error (for a status other
\* than 200 the status and the head of the upstream body), and nothing is
\* validated or executed.
C8_GenerationFailure502 ==
  (llm_calls = 1 /\ GenerationFailed(answer)) =>
    /\ pc = "done"
    /\ response.status = 502
    /\ response.label = "LLM error: "
    /\ response.error.exc # ""
    /\ response.error.what # ""
    /\ answer.raised # "" => response.error.exc = answer.raised
    /\ (answer.raised = "" /\ answer.status_code # 200) =>
         /\ response.error.status = answer.status_code
         /\ startswith(answer.text, response.error.body)
         /\ Len(response.error.body) = IF Len(answer.text) < 200 THEN Len(answer.text) ELSE 200
    /\ validated = << >>
    /\ executed = << >>

\* C8 witness: an upstream 403 with a body longer than 200 characters ended
\* in 502 with the status and the first 200 characters.
C8_Witness ==
  /\ llm_calls = 1
  /\ answer.status_code = 403
  /\ Len(answer.text) > 200
  /\ response.status = 502
  /\ response.error.status = 403
  /\ Len(response.error.body) = 200

\* C9: every invocation ends in one classified outcome (200, 503, 502, the two
\* validation rejections or the execution failure, each 400); no exception
\* leaves the handler unclassified, and no response exists before the end.
C9_ClassifiedOutcome ==
  /\ pc = "done" =>
       \/ response.status = 200 /\ response.label = ""
       \/ response.status = 503 /\ response.label = "Bedrock API not configured"
       \/ response.status = 502 /\ response.label = "LLM error: "
       \/ UnsafeRejected
       \/ NotAReadQueryRejected
       \/ ExecutionFailed
  /\ pc \in {"generate", "validate", "execute"} => response = NoResponse

\* C9 witness: a document without its content field, that is an exception
\* raised while unwrapping, ended in 502.
C9_Witness ==
  /\ pc = "done"
  /\ answer.doc = "no_content"
  /\ response.status = 502
  /\ response.error.exc = "KeyError"

\* The wrappers that open with a fence line (the fence, a language tag or
\* none, a newline) and close with a fence.
FenceLineWrappers == {Wrap_fence_tag, Wrap_fence_newline, Wrap_fence_padded}

\* The query inside the wrapper: the body without the blanks around it.
InnerQuery(a) == strip(a.body)

PlainWrappers == {Wrap_none, Wrap_blank, Wrap_fence_unclosed} \cup FenceLineWrappers

\* C11: the detail of every validation rejection (unsafe, or not a read
\* query) is a 400 that quotes the candidate the check was applied to,
\* character for character: not its upper-case or left-trimmed form, and,
\* the blanks and the fence lines around it apart, the text of the answer.
C11_RejectionQuotesCandidate ==
  (UnsafeRejected \/ NotAReadQueryRejected) =>
    /\ response.status = 400
    /\ validated # << >>
    /\ response.quoted = << validated[Len(validated)] >>
    /\ answer.wrap \in PlainWrappers => response.quoted = << InnerQuery(answer) >>

\* C11 witness: the answer "drop 1" between blanks was rejected as unsafe and
\* quoted in lower case.
C11_Witness ==
  /\ answer.wrap = Wrap_blank
  /\ answer.body = drop_lower \o << " ", "1" >>
  /\ UnsafeRejected
  /\ response.quoted = << drop_lower \o << " ", "1" >> >>

\* C12: every failure the engine raises while executing a validated query
\* ends the invocation with 400 "Query execution error"; the detail carries
\* the message of the engine's exception and the text that was executed, and
\* the exception does not leave the handler.
C12_ExecutionFailure400 ==
  engine_outcome.kind = "error" =>
    /\ pc = "done"
    /\ ExecutionFailed
    /\ response.error.exc = engine_outcome.error
    /\ response.error.what = "engine message"
    /\ executed # << >>
    /\ response.quoted = << executed[Len(executed)].text >>

\* C12 witness: "SELECT_", which passes the safety check, was a syntax error
\* for the engine and ended in 400 with the text.
C12_Witness ==
  /\ executed # << >>
  /\ executed[1].text = SELECT \o << "_" >>
  /\ engine_outcome.error = "OperationalError"
  /\ ExecutionFailed
  /\ response.quoted = << SELECT \o << "_" >> >>

\* C13: in every successful response the question is the question submitted
\* and sql is, character for character, the text passed to db.execute in
\* this invocation.
C13_ResponseReportsWhatRan ==
  response.status = 200 =>
    /\ response.body.question = question
    /\ Len(executed) = 1
    /\ response.body.sql = executed[1].text

\* C13 witness: the answer was a padded, fenced "Select 1"; the response to
\* question q1 reports q1 and the unwrapped text that was executed.
C13_Witness ==
  /\ question = "q1"
  /\ answer.wrap = Wrap_fence_padded
  /\ answer.body = Select_mixed \o << " ", "1" >>
  /\ response.status = 200
  /\ response.body.question = "q1"
  /\ response.body.sql = Select_mixed \o << " ", "1" >>
  /\ executed[1].text = Select_mixed \o << " ", "1" >>

\* The size ceilings tried: the specification gives the ceiling no value.
Ceilings == 1..MaxCeiling

\* C14 as claimed: there is a size ceiling, and a text longer than it is
\* never passed to db.execute.
C14_Claimed_SizeCeiling ==
  \E ceiling \in Ceilings : \A i \in DOMAIN executed : Len(executed[i].text) <= ceiling

\* C15 as claimed: the generation service is called only with a question
\* that is not empty: a request with an empty question is rejected before
\* any generation call.
C15_Claimed_QuestionChecked == llm_calls > 0 => question # ""

\* C16 as claimed: neither wait is without end. When the generation service
\* does not answer in time the invocation ends with 502, and when the engine
\* never answers the execution the invocation ends too, as a failure.
C16_Claimed_BothWaitsBounded ==
  /\ (llm_calls = 1 /\ answer.raised = "ReadTimeout") =>
       pc = "done" /\ response.status = 502
  /\ engine_outcome.kind = "never" => pc = "done" /\ ExecutionFailed

\* The first token of a text, in upper case: the longest run of letters,
\* digits and underscores at the start of the trimmed text.
FirstWord(s) ==
  LET t == strip(s)
  IN  upper(Slice(t, 1, WordRun(t, 1)))

\* C17 as claimed: a candidate whose first token is not exactly SELECT, in
\* any letter case, is rejected with 400 and is not executed, also when the
\* token begins with those six letters.
C17_Claimed_FirstTokenIsSelect ==
  \A i \in DOMAIN validated :
    FirstWord(validated[i]) # SELECT =>
      /\ pc = "done"
      /\ UnsafeRejected \/ NotAReadQueryRejected
      /\ executed = << >>

\* C18 as claimed: the text handed to validation is the text of the answer
\* without the fence markers and the blanks around it, every character of the
\* query kept, also when the query follows the opening fence directly.
C18_Claimed_UnwrappingCosmetic ==
  (answer.doc = "text" /\ validated # << >>) => validated[1] = InnerQuery(answer)

\* C19 as claimed: while one invocation waits for the generation service,
\* every other invocation that has a step to take (to start, to resume after
\* its execution and respond) can take it.
C19_Claimed_OthersProgress ==
  \A t \in Tasks : \A u \in Tasks \ {t} :
    loop.at[t] = "post" =>
      /\ loop.at[u] = "ready" => ENABLED task_starts(u)
      /\ loop.at[u] = "resumable" => ENABLED task_resumes(u)

\* C20: an invocation makes at most one generation call and at most one
\* execution; one that ended in a generation failure or a validation
\* rejection made one call and no execution, and one that ended in an
\* execution failure made one call and one execution.
C20_OneShot ==
  /\ llm_calls <= 1
  /\ Len(executed) <= 1
  /\ response.status = 502 => llm_calls = 1 /\ executed = << >>
  /\ (UnsafeRejected \/ NotAReadQueryRejected) => llm_calls = 1 /\ executed = << >>
  /\ ExecutionFailed => llm_calls = 1 /\ Len(executed) = 1

\* C20 witness: an invocation that ended in an execution failure had made one
\* generation call and one execution.
C20_Witness ==
  /\ pc = "done"
  /\ ExecutionFailed
  /\ llm_calls = 1
  /\ Len(executed) = 1

\* The outcome of an invocation as a function of the token the module was
\* loaded with, the question, the answer of the generation service and the
\* answer of the engine, and of nothing else.
Outcome(token, q, a, o) ==
  IF not_configured(token)
    THEN Response(503, "Bedrock API not configured", NoError, << >>, NoBody)
  ELSE LET r == bedrock_try(a)
       IN  IF r.error # NoError
             THEN Response(502, "LLM error: ", r.error, << >>, NoBody)
           ELSE LET s == strip_fences(r.sql)
                    v == validate(s)
                IN  IF v # "ok" THEN rejection_detail(v, s)
                    ELSE IF o.kind = "rows"
                      THEN LET fetched == fetchall(o.columns, o.nrows)
                               rows == enforce_limit(
                                 [i \in 1..Len(fetched) |-> dict_zip(o.columns, fetched[i])])
                           IN  Response(200, "", NoError, << >>, AskResponse(q, s, rows))
                    ELSE execution_error_detail(o.error, s)

Verdict(t) ==
  IF HasDenylistedWord(t) THEN "Unsafe query rejected: "
  ELSE IF ~BeginsWithSelect(t) THEN "Only SELECT queries allowed. Got: "
  ELSE "ok"

\* C22: the validation gives a candidate the verdict and the reason that the
\* text alone determines, and the checks applied once more to that text give
\* the same; the validation changes neither the text, nor the data store,
\* nor what was executed, nor the configuration.
C22_ValidationDeterministic ==
  \A i \in DOMAIN validated :
    LET t == validated[i]
    IN  /\ validate(t) = Verdict(t)
        /\ sql = t
        /\ environ = "token"
        /\ Verdict(t) = "ok" =>
             /\ pc \in {"execute", "awaiting", "done"}
             /\ pc = "execute" =>
                  /\ response = NoResponse
                  /\ executed = << >>
                  /\ engine_outcome = NoOutcome
                  /\ store = store_at_entry
        /\ Verdict(t) # "ok" =>
             /\ pc = "done"
             /\ response.status = 400
             /\ response.label = Verdict(t)
             /\ executed = << >>
             /\ engine_outcome = NoOutcome
             /\ store = store_at_entry

\* C22 witness: the text "_" of a request with no question was rejected as
\* not a read query, the verdict the checks give that text.
C22_Witness ==
  /\ pc = "done"
  /\ question = ""
  /\ validated = << << "_" >> >>
  /\ validate(<< "_" >>) = "Only SELECT queries allowed. Got: "
  /\ NotAReadQueryRejected
  /\ store = store_at_entry

\* The text holds a denylisted verb, in any letter case, at some position,
\* as a word or inside one.
HasVerbAsPart(t) ==
  \E v \in DenylistedVerbs : \E k \in 1..(Len(t) - Len(v) + 1) :
    \A j \in 1..Len(v) : upper_char(t[k + j - 1]) = v[j]

\* C23: a candidate that begins with SELECT and holds a denylisted verb only
\* inside longer identifiers, never as a whole word, is not rejected; it is
\* passed to db.execute.
C23_WholeWordsOnly ==
  \A i \in DOMAIN validated :
    LET t == validated[i]
    IN  (BeginsWithSelect(t) /\ ~HasDenylistedWord(t) /\ HasVerbAsPart(t)) =>
          /\ ~UnsafeRejected
          /\ ~NotAReadQueryRejected
          /\ pc \in {"execute", "awaiting", "done"}
          /\ pc # "execute" => executed = << [text |-> t, read_only |-> execute_read_only] >>

\* C23 witness: "SELECT created_at" was executed and answered with rows.
C23_Witness ==
  /\ validated = << SELECT \o << " ","c","r","e","a","t","e","d","_","a","t" >> >>
  /\ Len(executed) = 1
  /\ response.status = 200

\* C24: when the text of the answer is empty, blank, or nothing but fence
\* markers around blanks, the candidate is the empty text; it is rejected
\* with 400 as not a read query and nothing is passed to db.execute.
C24_EmptyCandidateRejected ==
  /\ (llm_calls = 1 /\ answer.doc = "text" /\ InnerQuery(answer) = << >>) =>
       /\ pc \in {"validate", "done"}
       /\ pc = "done" => validated = << << >> >>
  /\ \A i \in DOMAIN validated :
       strip(validated[i]) = << >> =>
         /\ pc = "done"
         /\ NotAReadQueryRejected
         /\ response.quoted = << << >> >>
         /\ executed = << >>

\* C24 witness: an answer of two fence markers and nothing between them was
\* rejected as not a read query.
C24_Witness ==
  /\ answer.doc = "text"
  /\ answer.wrap = Wrap_fence_bare
  /\ answer.body = << >>
  /\ validated = << << >> >>
  /\ NotAReadQueryRejected
  /\ executed = << >>

\* C25 as claimed: every row of a successful response has one entry for each
\* column of the projection, and every value the engine returned in the row
\* is in it, also when two columns of the projection have the same name.
C25_Claimed_NoValueLost ==
  response.status = 200 =>
    \A i \in 1..Len(response.body.results) :
      LET row == response.body.results[i]
          columns == engine_outcome.columns
      IN  /\ Cardinality(DOMAIN row) = Len(columns)
          /\ \A k \in 1..Len(columns) : \E c \in DOMAIN row : row[c] = Cell(i, k)

\* C26: when the engine returns n rows, the results of the response are its
\* first min(n, 200) rows in the engine's order: the i-th result holds values
\* of the engine's i-th row and of no other.
C26_TruncationKeepsPrefix ==
  response.status = 200 =>
    LET n == engine_outcome.nrows
        columns == engine_outcome.columns
        results == response.body.results
    IN  /\ Len(results) = IF n < 200 THEN n ELSE 200
        /\ \A i \in 1..Len(results) :
             /\ DOMAIN results[i] = Range(columns)
             /\ \A c \in DOMAIN results[i] :
                  \E k \in 1..Len(columns) : columns[k] = c /\ results[i][c] = Cell(i, k)

\* C26 witness: of 202 rows the engine returned, the response holds the
\* first 200, the first row first and the 200th last.
C26_Witness ==
  /\ response.status = 200
  /\ engine_outcome.nrows = 202
  /\ Len(response.body.results) = 200
  /\ response.body.results[1]["character"] = Cell(1, 1)
  /\ response.body.results[200]["pinyin"] = Cell(200, 2)

====
